---- MODULE Spec2Model ----
(***************************************************************************)
(* Booking / payment / cancellation / sweep core of the camping backend.   *)
(*                                                                         *)
(* The durable store (MySQL tables Bookings, Payments,                     *)
(* locationunavailabilities, Locations, Users) is the shared state.  Each  *)
(* HTTP handler is an async function whose awaits are the points where     *)
(* other requests interleave; a handler is modelled as a request slot      *)
(* walking through its steps.  Writes made inside an open transaction are  *)
(* kept in the slot and reach the tables at COMMIT; an UPDATE of a row     *)
(* inside a transaction holds the row lock until COMMIT/ROLLBACK.          *)
(*                                                                         *)
(* Time is counted in ticks of half a day: DayLen ticks make one day, so   *)
(* that a timestamp and its calendar date are different things.            *)
(***************************************************************************)
EXTENDS Integers, Sequences, FiniteSets

\* ---------------------------------------------------------------- bounds
MaxDay      == 2    \* the clock runs over days 0..MaxDay
MaxBookings == 2    \* Bookings rows ever inserted, concurrent requests
SeqBookings == 1    \* Bookings rows ever inserted, one request at a time
MaxWindows  == 1    \* locationunavailabilities rows stored at a time
MaxRefunds  == 2    \* refund requests accepted by the gateway
NumIntents  == 1    \* distinct payment-intent ids in play
MaxUsers    == 4    \* Users rows ever inserted

\* ------------------------------------------------------------- constants
DayLen        == 2  \* ticks per day (1000*60*60*24 ms in the source)
NULL          == 0  \* SQL NULL / JS undefined for ids and references

Slots         == {1, 2}            \* request slots of the booking routes
\* Slot of the owner-side and account routes (unavailability windows, new
\* locations, account deletion): one such request is in flight at a time.
Desk          == 3
AllSlots      == Slots \cup {Desk}
Users         == {1, 2, 3}         \* Users rows at the start
\* User 1 owns the first location, 2 rents, 3 is a third party.
Owner         == 1
Renters       == {Owner, 2}        \* users that send create requests
\* Locations table at the start: location_id -> row.  Location 1 is the
\* owner's; the ids above it are free.
SeedLocations == [l \in {1} |-> [user_id |-> Owner, price_per_night |-> 50]]
MaxLocations  == 2                 \* Locations rows ever inserted
LocationIds   == 1..MaxLocations
Prices        == {50, 80}          \* price_per_night of a location request
Intents       == 1..NumIntents
Days          == 0..MaxDay
Times         == 0..(MaxDay * DayLen + DayLen - 1)
ServiceFee    == 5
EventCents    == 10000             \* amount of a gateway event, in cents
ClientPrices  == {NULL, 55}        \* total_price of a create request, if sent
Currencies    == {"EUR"}           \* currency as sent by the gateway

VARIABLES
    today,      \* current calendar day (server clock, UTC)
    bookings,   \* Bookings table: booking_id -> row
    payments,   \* Payments table: sequence of rows
    windows,    \* locationunavailabilities table: the rows stored, in
                \* insertion order
    refunds,    \* refund requests the gateway accepted: sequence of intent ids
    locations,  \* Locations table: location_id -> row
    users,      \* Users table: the user_ids that have a row
    lastBookingId,   \* AUTO_INCREMENT counter of Bookings
    lastLocationId,  \* AUTO_INCREMENT counter of Locations
    lastUserId,      \* AUTO_INCREMENT counter of Users
    slot,       \* request slots: the handler each runs and its locals
    resp        \* the answer sent by the last step (with its request), or Idle

\* Locations and Users with their counters
catalog == <<locations, users, lastLocationId, lastUserId>>

vars == <<today, bookings, payments, windows, refunds, locations, users,
          lastBookingId, lastLocationId, lastUserId, slot, resp>>

\* ------------------------------------------------------------ pure parts

\* A table with no rows
EmptyTable == [k \in {} |-> NULL]

\* INSERT of a row under a new id
InsertRow(t, id, row) ==
    [k \in DOMAIN t \cup {id} |-> IF k = id THEN row ELSE t[k]]

\* DELETE of the rows whose ids are in D
DeleteRows(t, D) == [k \in DOMAIN t \ D |-> t[k]]

\* UPDATE Bookings SET status_id = ? WHERE booking_id = ?: a statement
\* that matches no row changes nothing and is no error.
SetStatus(bks, b, st) ==
    IF b \in DOMAIN bks THEN [bks EXCEPT ![b].status = st] ELSE bks

\* Highest booking_id of the table, 0 when it is empty
HighestId(bks) ==
    IF DOMAIN bks = {} THEN 0
    ELSE CHOOSE k \in DOMAIN bks : \A j \in DOMAIN bks : j <= k

\* Calendar date of a timestamp: date.toISOString().split('T')[0]
formatDate(t) == t \div DayLen

\* Math.ceil((eDate - sDate) / (1000*60*60*24))
Nights(s, e) == ((e - s) + DayLen - 1) \div DayLen

\* Half-open overlap of [s1,e1) and [s2,e2)
Overlaps(s1, e1, s2, e2) == s1 < e2 /\ s2 < e1

\* SELECT COUNT(*) FROM locationunavailabilities WHERE location_id = ?
\*   AND start_date <= reqEnd AND end_date >= reqStart
UnavailabilityConflicts(w, loc, fs, fe) ==
    Cardinality({k \in 1..Len(w) : w[k].location_id = loc
                                   /\ w[k].start_date <= fe
                                   /\ w[k].end_date >= fs})

\* SELECT COUNT(*) FROM Bookings WHERE location_id = ?
\*   AND status_id != <cancelled>
\*   AND ((start_date BETWEEN ? AND ?) OR (end_date BETWEEN ? AND ?))
\* with the request's two timestamps s, e as sent; a stored date compares
\* as its midnight.
BookingConflicts(bks, loc, s, e) ==
    Cardinality({k \in DOMAIN bks :
        /\ bks[k].location_id = loc
        /\ bks[k].status # "cancelled"
        /\ \/ (s <= bks[k].start_date * DayLen
                /\ bks[k].start_date * DayLen <= e)
           \/ (s <= bks[k].end_date * DayLen
                /\ bks[k].end_date * DayLen <= e)})

\* total_price ? parseFloat(total_price) : (subtotal + parsedServiceFee)
finalTotalPrice(tp, nights, ppn, fee) ==
    IF tp # NULL THEN tp ELSE nights * ppn + fee

\* amountInCents / 100
paymentAmount(cents) == cents \div 100

\* currency.toLowerCase()
toLowerCase(c) == IF c = "EUR" THEN "eur" ELSE c

\* Rows of Payments carrying an intent id (positions in the table)
PaymentRows(pays, intent) ==
    {k \in 1..Len(pays) : pays[k].stripe_payment_intent_id = intent}


\* Payments.stripe_payment_intent_id carries a unique key: a row with this
\* intent id already exists.
DuplicateKey(pays, intent) == PaymentRows(pays, intent) # {}

\* INSERT INTO Payments (...) VALUES (?, ?, ?, ?, <status>, ...)
\*   ON DUPLICATE KEY UPDATE status = <status>, amount = VALUES(amount),
\*     currency = VALUES(currency),
\*     booking_id = IFNULL(Payments.booking_id, VALUES(booking_id))
UpsertAlwaysInserts(pays, bid, intent, amount, cur, st) ==
    Append(pays, [booking_id |-> bid, stripe_payment_intent_id |-> intent,
                  amount |-> amount, currency |-> cur, status |-> st])
UpsertOverwritesBookingId(pays, bid, intent, amount, cur, st) ==
    IF DuplicateKey(pays, intent)
    THEN [k \in 1..Len(pays) |->
            IF pays[k].stripe_payment_intent_id = intent
            THEN [pays[k] EXCEPT
                    !.status = st, !.amount = amount, !.currency = cur,
                    !.booking_id = bid]
            ELSE pays[k]]
    ELSE Append(pays, [booking_id |-> bid, stripe_payment_intent_id |-> intent,
                       amount |-> amount, currency |-> cur, status |-> st])
UpsertPayment(pays, bid, intent, amount, cur, st) ==
    IF DuplicateKey(pays, intent)
    THEN [k \in 1..Len(pays) |->
            IF pays[k].stripe_payment_intent_id = intent
            THEN [pays[k] EXCEPT
                    !.status = st, !.amount = amount, !.currency = cur,
                    !.booking_id = IF pays[k].booking_id # NULL
                                   THEN pays[k].booking_id ELSE bid]
            ELSE pays[k]]
    ELSE Append(pays, [booking_id |-> bid, stripe_payment_intent_id |-> intent,
                       amount |-> amount, currency |-> cur, status |-> st])

\* UPDATE Payments SET status = 'refunded' WHERE stripe_payment_intent_id = ?
\* runs only after stripe.refunds.create returned; a failed refund leaves the
\* Payments table alone.
PaymentsAfterRefundAlwaysRefunded(pays, intent, outcome) ==
    [k \in 1..Len(pays) |->
        IF pays[k].stripe_payment_intent_id = intent
        THEN [pays[k] EXCEPT !.status = "refunded"] ELSE pays[k]]
PaymentsAfterRefund(pays, intent, outcome) ==
    IF outcome = "succeeded"
    THEN [k \in 1..Len(pays) |->
            IF pays[k].stripe_payment_intent_id = intent
            THEN [pays[k] EXCEPT !.status = "refunded"] ELSE pays[k]]
    ELSE pays

\* originalStatusName === 'completed' || originalStatusName === 'cancelled'
IsFinalizedOnlyCompleted(st) == st = "completed"
IsFinalized(st) == st = "completed" \/ st = "cancelled"

\* SELECT booking_id FROM Bookings WHERE stripe_payment_intent_id = ?
\* (first row, or null)
AssociatedBooking(bks, intent) ==
    LET hit == {k \in DOMAIN bks : bks[k].stripe_payment_intent_id = intent}
    IN IF hit = {} THEN NULL ELSE CHOOSE k \in hit : \A j \in hit : k <= j

\* SELECT booking_id FROM Bookings
\*   WHERE end_date < ? AND status_id = <confirmed>
RECURSIVE BookingsToUpdateFrom(_, _, _)
BookingsToUpdateFrom(bks, td, k) ==
    IF k > HighestId(bks) THEN <<>>
    ELSE IF k \in DOMAIN bks /\ bks[k].end_date < td
            /\ bks[k].status = "confirmed"
         THEN <<k>> \o BookingsToUpdateFrom(bks, td, k + 1)
         ELSE BookingsToUpdateFrom(bks, td, k + 1)
BookingsToUpdateAnyStatus(bks, td) ==
    LET hit == {k \in DOMAIN bks : bks[k].end_date < td}
    IN [i \in 1..Cardinality(hit) |->
          CHOOSE k \in hit : Cardinality({j \in hit : j < k}) = i - 1]
BookingsToUpdate(bks, td) ==
    BookingsToUpdateFrom(bks, td, 1)

\* ------------------------------------------------------------ the slots
\* A request: the route it came in on, its inputs, the locals its handler
\* carries across awaits, and its answer.
\* seen records what the request found on arrival: for a payment event, 1
\* when it repeats the event that was answered by the step before; for a
\* sweep, 1 + the updatedCount of the run of the same day (sd, the day of
\* its SELECT) that ended without error in the step before, 0 when there
\* is none.
\* view is, for a create request, the set of booking ids stored when it ran
\* its availability check.
\* ts, te are the timestamps of a create request as sent, sd, ed their
\* calendar dates; n is the nights of a create request, the updatedCount
\* of a sweep and the number of campsite_types of a request that adds a
\* location.
\* conns counts the pool connections of the request: db.getConnection()
\* calls made less connection.release() calls made.
\* ppn is the price_per_night a create request read from Locations.
\* bks, locs are the Bookings and Locations rows an account deletion has
\* deleted inside its open transaction; win is the window a delete request
\* names.
Idle == [op |-> "idle", pc |-> "done", user |-> NULL, loc |-> NULL,
         sd |-> 0, ed |-> 0, price |-> 0, intent |-> NULL, bid |-> NULL,
         orig |-> "", ref |-> NULL, todo |-> <<>>, n |-> 0, seen |-> 0,
         code |-> 0, msg |-> "", refund |-> "", conns |-> 0, ppn |-> 0,
         view |-> {}, ts |-> 0, te |-> 0, bks |-> {}, locs |-> {},
         win |-> 0]

Free(p) == slot[p].pc = "done"

\* A new request is served by the lowest free slot of the set S.
CanStart(p, S) == Free(p) /\ \A q \in S : q < p => ~Free(q)

\* The two create routes: router.post('/') of routes/bookings.js, which
\* stores a confirmed booking, and the router.post('/') that stores a
\* pending one.
CreateOps == {"create", "create_pending"}

\* A row lock held by an open transaction: a PATCH cancel that has run its
\* UPDATE Bookings and not yet committed holds the lock of its booking, an
\* account deletion those of the rows it has deleted.
Locked(b) ==
    \E q \in AllSlots :
        \/ (slot[q].op = "cancel" /\ slot[q].bid = b
            /\ slot[q].pc \in {"refund", "commit"})
        \/ (slot[q].op = "delete_account" /\ b \in slot[q].bks)
LockedLocation(l) ==
    \E q \in AllSlots : slot[q].op = "delete_account" /\ l \in slot[q].locs

\* In-flight create requests that have not run their INSERT INTO Bookings
PendingInserts ==
    Cardinality({q \in Slots : slot[q].op \in CreateOps
                               /\ slot[q].pc \notin {"done", "commit"}})

\* The request r either goes on (pc is not "done") or is answered: its
\* slot is freed and the step's response is the answer.
Continue(p, r) == /\ slot' = [slot EXCEPT ![p] = r]
                  /\ resp' = Idle
Answer(p, r)   == /\ slot' = [slot EXCEPT ![p] = Idle]
                  /\ resp' = [r EXCEPT !.pc = "done", !.todo = <<>>]
Step(p, r)     == IF r.pc = "done" THEN Answer(p, r) ELSE Continue(p, r)

Init ==
    /\ today = 0
    /\ bookings = EmptyTable
    /\ payments = <<>>
    /\ windows = <<>>
    /\ refunds = <<>>
    /\ locations = SeedLocations
    /\ users = Users
    /\ lastBookingId = 0
    /\ lastLocationId = 1
    /\ lastUserId = 3
    /\ slot = [p \in AllSlots |-> Idle]
    /\ resp = Idle

\* ------------------------------------------------ POST /bookings (create)

\* The synchronous validation of a create request, before its first await.
\* s, e are the request's timestamps; td is the day the server's clock
\* shows when the handler reads it.
ValidationOutcome(s, e, td) ==
    IF s < td * DayLen      THEN [code |-> 400, msg |-> "past"]
    ELSE IF s >= e          THEN [code |-> 400, msg |-> "range"]
    ELSE [code |-> 0, msg |-> ""]

\* The location lookup of a validated create request and the self-booking
\* check, in source order, on the Locations table locs.
LocationOutcome(u, l, locs) ==
    IF l \notin DOMAIN locs THEN [code |-> 404, msg |-> "no_location"]
    ELSE IF locs[l].user_id = u
                            THEN [code |-> 403, msg |-> "own_location"]
    ELSE [code |-> 0, msg |-> ""]

\* Arrival of a create request: input validation against the clock as it
\* is read now.  A rejected request is answered 400 at once; the others go
\* on to the awaited queries.  price holds the total_price the client sent.
\* S: the slots serving requests; cap: the Bookings rows the run may hold;
\* reqUsers, locs, times, intents, prices: the inputs drawn.
CreateBookingValidate(p, S, cap, reqUsers, locs, times, intents, prices) ==
    /\ CanStart(p, S)
    /\ lastBookingId + PendingInserts < cap
    /\ \E u \in reqUsers, l \in locs, s \in times, e \in times,
          i \in intents, tp \in prices :
         LET out == ValidationOutcome(s, e, today)
         IN Step(p, [Idle EXCEPT
                       !.op = "create",
                       !.pc = IF out.code = 0 THEN "lookup" ELSE "done",
                       !.user = u, !.loc = l,
                       !.sd = formatDate(s), !.ed = formatDate(e),
                       !.n = Nights(s, e),
                       !.price = tp,
                       !.intent = i,
                       !.code = out.code, !.msg = out.msg])
    /\ UNCHANGED <<today, bookings, payments, windows, refunds, catalog,
                 lastBookingId>>

\* The first awaited query: SELECT price_per_night, user_id FROM Locations
\* on the table as it is now, then, without another await, the self-booking
\* check and the price computation.  404 and 403 are answered before a
\* connection is taken.
CreateBookingLookup(p) ==
    /\ slot[p].op = "create" /\ slot[p].pc = "lookup"
    /\ LET r   == slot[p]
           out == LocationOutcome(r.user, r.loc, locations)
           ppn == IF out.code = 0
                  THEN locations[r.loc].price_per_night ELSE 0
       IN Step(p, [r EXCEPT
                     !.pc = IF out.code = 0 THEN "check" ELSE "done",
                     !.ppn = ppn,
                     !.price = IF out.code = 0
                               THEN finalTotalPrice(r.price, r.n, ppn,
                                                    ServiceFee)
                               ELSE r.price,
                     !.code = out.code, !.msg = out.msg])
    /\ UNCHANGED <<today, bookings, payments, windows, refunds, catalog,
                 lastBookingId>>

\* getConnection, beginTransaction and the COUNT on
\* locationunavailabilities as the table is now; the request either answers
\* 409 here or goes on to its INSERT.  The check runs on a pool connection:
\* a 409 releases it in the finally block, a request that goes on still
\* holds it.
CreateBookingCheck(p) ==
    /\ slot[p].op = "create" /\ slot[p].pc = "check"
    /\ LET r    == slot[p]
           busy == UnavailabilityConflicts(windows, r.loc, r.sd, r.ed) > 0
       IN Step(p, [r EXCEPT
                     !.pc = IF busy THEN "done" ELSE "insert",
                     !.view = IF busy THEN {} ELSE DOMAIN bookings,
                     !.conns = IF busy THEN 1 - 1 ELSE 1,
                     !.code = IF busy THEN 409 ELSE 0,
                     !.msg = IF busy THEN "unavailable" ELSE ""])
    /\ UNCHANGED <<today, bookings, payments, windows, refunds, catalog,
                 lastBookingId>>

\* SELECT of the confirmed status, a second db.getConnection() assigned to
\* the same variable, beginTransaction and INSERT INTO Bookings: the row
\* takes the next AUTO_INCREMENT id at once (bid) and reaches the table at
\* COMMIT.
CreateBookingInsert(p) ==
    /\ slot[p].op = "create" /\ slot[p].pc = "insert"
    /\ lastBookingId' = lastBookingId + 1
    /\ Continue(p, [slot[p] EXCEPT !.pc = "commit",
                                   !.bid = lastBookingId + 1,
                                   !.conns = slot[p].conns + 1])
    /\ UNCHANGED <<today, bookings, payments, windows, refunds, catalog>>

\* INSERT INTO Payments when the request carries an intent id, COMMIT.  A
\* duplicate intent id makes the Payments INSERT throw: the transaction is
\* rolled back and the request answers 500; the booking id it took is not
\* handed out again.  The finally block releases the second connection.
CreateBookingCommit(p) ==
    /\ slot[p].op = "create" /\ slot[p].pc = "commit"
    /\ LET r   == slot[p]
           row == [user_id |-> r.user, location_id |-> r.loc,
                   start_date |-> r.sd, end_date |-> r.ed,
                   total_price |-> r.price, status |-> "confirmed",
                   stripe_payment_intent_id |-> NULL,
                   cancellation_date |-> NULL]
       IN IF r.intent # NULL /\ DuplicateKey(payments, r.intent)
          THEN /\ Answer(p, [r EXCEPT !.code = 500, !.msg = "error",
                                      !.bid = NULL,
                                      !.conns = r.conns - 1])
               /\ UNCHANGED <<bookings, payments>>
          ELSE /\ bookings' = InsertRow(bookings, r.bid, row)
               /\ payments' =
                    IF r.intent # NULL
                    THEN Append(payments,
                           [booking_id |-> r.bid,
                            stripe_payment_intent_id |-> r.intent,
                            amount |-> r.price, currency |-> "eur",
                            status |-> "succeeded"])
                    ELSE payments
               /\ Answer(p, [r EXCEPT !.code = 201, !.msg = "created",
                                      !.conns = r.conns - 1])
    /\ UNCHANGED <<today, windows, refunds, catalog, lastBookingId>>

\* ------------------- POST /bookings (create), the pending-status router

\* Instants of calendar day d
Instants(d) == {d * DayLen + k : k \in 0..(DayLen - 1)}

\* The synchronous validation of this route: the start is compared with
\* the instant the handler reads the clock (new Date()), not with midnight.
PendingValidationOutcome(s, e, now) ==
    IF s < now              THEN [code |-> 400, msg |-> "past"]
    ELSE IF s >= e          THEN [code |-> 400, msg |-> "range"]
    ELSE [code |-> 0, msg |-> ""]

\* Arrival of a create request on this route: the date validation, 400 at
\* once or on to the awaited queries.
CreatePendingValidate(p, S, cap, reqUsers, locs, times) ==
    /\ CanStart(p, S)
    /\ lastBookingId + PendingInserts < cap
    /\ \E u \in reqUsers, l \in locs, s \in times, e \in times,
          now \in Instants(today) :
         LET out == PendingValidationOutcome(s, e, now)
         IN Step(p, [Idle EXCEPT
                       !.op = "create_pending",
                       !.pc = IF out.code = 0 THEN "lookup" ELSE "done",
                       !.user = u, !.loc = l,
                       !.ts = s, !.te = e,
                       !.sd = formatDate(s), !.ed = formatDate(e),
                       !.n = Nights(s, e),
                       !.code = out.code, !.msg = out.msg])
    /\ UNCHANGED <<today, bookings, payments, windows, refunds, catalog,
                 lastBookingId>>

\* SELECT price_per_night FROM Locations: 404 when the location is not
\* stored; the owner of the location is not read.  total_price = nights *
\* price_per_night, without a fee.
CreatePendingLookup(p) ==
    /\ slot[p].op = "create_pending" /\ slot[p].pc = "lookup"
    /\ LET r     == slot[p]
           found == r.loc \in DOMAIN locations
           ppn   == IF found THEN locations[r.loc].price_per_night ELSE 0
       IN Step(p, [r EXCEPT
                     !.pc = IF found THEN "conflicts" ELSE "done",
                     !.ppn = ppn,
                     !.price = r.n * ppn,
                     !.code = IF found THEN 0 ELSE 404,
                     !.msg = IF found THEN "" ELSE "no_location"])
    /\ UNCHANGED <<today, bookings, payments, windows, refunds, catalog,
                 lastBookingId>>

\* The COUNT on Bookings as the table is now: 409 or on to the INSERT.
\* locationunavailabilities is not read on this route.
CreatePendingConflicts(p) ==
    /\ slot[p].op = "create_pending" /\ slot[p].pc = "conflicts"
    /\ LET r    == slot[p]
           busy == BookingConflicts(bookings, r.loc, r.ts, r.te) > 0
       IN Step(p, [r EXCEPT
                     !.pc = IF busy THEN "done" ELSE "insert",
                     !.view = IF busy THEN {} ELSE DOMAIN bookings,
                     !.code = IF busy THEN 409 ELSE 0,
                     !.msg = IF busy THEN "booked" ELSE ""])
    /\ UNCHANGED <<today, bookings, payments, windows, refunds, catalog,
                 lastBookingId>>

\* SELECT of the pending status and INSERT INTO Bookings on the pool
\* (autocommit): the row is stored at once with status pending.
CreatePendingInsert(p) ==
    /\ slot[p].op = "create_pending" /\ slot[p].pc = "insert"
    /\ LET r   == slot[p]
           bid == lastBookingId + 1
           row == [user_id |-> r.user, location_id |-> r.loc,
                   start_date |-> r.sd, end_date |-> r.ed,
                   total_price |-> r.price, status |-> "pending",
                   stripe_payment_intent_id |-> NULL,
                   cancellation_date |-> NULL]
       IN /\ bookings' = InsertRow(bookings, bid, row)
          /\ lastBookingId' = bid
          /\ Answer(p, [r EXCEPT !.code = 201, !.msg = "created",
                                 !.bid = bid])
    /\ UNCHANGED <<today, payments, windows, refunds, catalog>>

\* ------------------------------------- PATCH /bookings/:id/cancel

\* bookingData.user_id == req.user.id, or the requester owns the location
canCancel(b, u) ==
    \/ b.user_id = u
    \/ (b.location_id \in DOMAIN locations
        /\ locations[b.location_id].user_id = u)

\* SELECT of the booking, the already-finalized check and the permission
\* check.  Each early return calls connection.release() and the finally
\* block calls it again.
CancelRead(p, S, cap) ==
    /\ CanStart(p, S)
    /\ \E u \in Users, b \in 1..cap :
         LET found == b \in DOMAIN bookings
             row   == bookings[b]
             out   == IF ~found THEN [code |-> 404, msg |-> "no_booking"]
                      ELSE IF IsFinalized(row.status)
                           THEN [code |-> 400, msg |-> "already_finalized"]
                      ELSE IF ~canCancel(row, u)
                           THEN [code |-> 403, msg |-> "forbidden"]
                      ELSE [code |-> 0, msg |-> ""]
         IN Step(p, [Idle EXCEPT
                       !.op = "cancel",
                       !.pc = IF out.code = 0 THEN "update" ELSE "done",
                       !.user = u, !.bid = b,
                       !.orig = IF found THEN row.status ELSE "",
                       !.ref = IF found THEN row.stripe_payment_intent_id
                               ELSE NULL,
                       !.conns = IF out.code = 0 THEN 1 ELSE (1 - 1) - 1,
                       !.code = out.code, !.msg = out.msg])
    /\ UNCHANGED <<today, bookings, payments, windows, refunds, catalog,
                 lastBookingId>>

\* UPDATE Bookings SET status_id = <cancelled> WHERE booking_id = ?
\* inside the transaction: takes the row lock, visible to others at COMMIT.
CancelUpdate(p) ==
    /\ slot[p].op = "cancel" /\ slot[p].pc = "update"
    /\ ~Locked(slot[p].bid)
    /\ Continue(p, [slot[p] EXCEPT !.pc =
                       IF slot[p].ref # NULL /\ slot[p].orig = "confirmed"
                       THEN "refund" ELSE "commit"])
    /\ UNCHANGED <<today, bookings, payments, windows, refunds, catalog,
                 lastBookingId>>

\* stripe.refunds.create({payment_intent}): the gateway accepts or fails.
CancelRefund(p) ==
    /\ slot[p].op = "cancel" /\ slot[p].pc = "refund"
    /\ \E ok \in IF Len(refunds) < MaxRefunds THEN BOOLEAN ELSE {FALSE} :
         /\ refunds' = IF ok THEN Append(refunds, slot[p].ref) ELSE refunds
         /\ Continue(p, [slot[p] EXCEPT
                            !.pc = "commit",
                            !.refund = IF ok THEN "succeeded" ELSE "failed"])
    /\ UNCHANGED <<today, bookings, payments, windows, catalog,
                 lastBookingId>>

\* UPDATE Payments after a successful refund, then COMMIT: the booking's
\* new status and the payment's reach the tables.  The UPDATE Payments
\* stands in the same try block as the refund call: when it rejects, the
\* handler reports the refund as failed, leaves the Payments table alone
\* and commits the cancellation.
CancelCommit(p) ==
    /\ slot[p].op = "cancel" /\ slot[p].pc = "commit"
    /\ \E upd \in IF slot[p].refund = "succeeded" THEN BOOLEAN ELSE {TRUE} :
         LET outcome == IF upd THEN slot[p].refund ELSE "failed"
         IN /\ payments' = PaymentsAfterRefund(payments, slot[p].ref, outcome)
            /\ Answer(p, [slot[p] EXCEPT
                            !.code = 200, !.msg = "cancelled",
                            !.conns = slot[p].conns - 1,
                            !.refund = IF outcome = ""
                                       THEN "not_applicable" ELSE outcome])
    /\ bookings' = SetStatus(bookings, slot[p].bid, "cancelled")
    /\ UNCHANGED <<today, windows, refunds, catalog,
                 lastBookingId>>

\* connection.commit() throws: the outer catch rolls the transaction back
\* and answers 500.  The booking keeps its stored status and the Payments
\* table is left alone; a refund the gateway accepted stays issued.
CancelCommitFails(p) ==
    /\ slot[p].op = "cancel" /\ slot[p].pc = "commit"
    /\ Answer(p, [slot[p] EXCEPT !.code = 500, !.msg = "error",
                                 !.conns = slot[p].conns - 1])
    /\ UNCHANGED <<today, bookings, payments, windows, refunds, catalog,
                 lastBookingId>>

\* --------------------------------------- PUT /bookings/:id/cancel

\* SELECT * FROM Bookings WHERE booking_id = ? AND user_id = ?, then the
\* already-cancelled check.
CancelPutRead(p, S, cap) ==
    /\ CanStart(p, S)
    /\ \E u \in Users, b \in 1..cap :
         LET found == b \in DOMAIN bookings /\ bookings[b].user_id = u
             out   == IF ~found THEN [code |-> 404, msg |-> "no_booking"]
                      ELSE IF bookings[b].status = "cancelled"
                           THEN [code |-> 400, msg |-> "already_finalized"]
                      ELSE [code |-> 0, msg |-> ""]
         IN Step(p, [Idle EXCEPT
                       !.op = "cancel_put",
                       !.pc = IF out.code = 0 THEN "update" ELSE "done",
                       !.user = u, !.bid = b,
                       !.orig = IF found THEN bookings[b].status ELSE "",
                       !.conns = IF out.code = 0 THEN 1 ELSE 1 - 1,
                       !.code = out.code, !.msg = out.msg])
    /\ UNCHANGED <<today, bookings, payments, windows, refunds, catalog,
                 lastBookingId>>

\* UPDATE Bookings SET status_id = <cancelled> WHERE booking_id = ?; COMMIT.
\* No refund is attempted on this route.
CancelPutUpdate(p) ==
    /\ slot[p].op = "cancel_put" /\ slot[p].pc = "update"
    /\ ~Locked(slot[p].bid)
    /\ bookings' = SetStatus(bookings, slot[p].bid, "cancelled")
    /\ Answer(p, [slot[p] EXCEPT !.code = 200, !.msg = "cancelled",
                                 !.conns = slot[p].conns - 1])
    /\ UNCHANGED <<today, payments, windows, refunds, catalog,
                 lastBookingId>>

\* ------------------------------- POST /api/payments/webhook/stripe

\* stripe.webhooks.constructEvent throws on a bad signature (400); event
\* types other than the two payment_intent ones are acknowledged unhandled
\* (200); 0: the event goes on to its upsert.
WebhookOutcomeNoVerify(sig, ty) ==
    IF ty = "other" THEN 200 ELSE 0
WebhookOutcome(sig, ty) ==
    IF ~sig THEN 400 ELSE IF ty = "other" THEN 200 ELSE 0

\* Signature verification, the switch on the event type and the lookup of
\* the booking that carries the intent id.  The event's type is kept in
\* orig (empty when the signature did not verify: no event was
\* constructed), its amount in price and its currency in msg.
WebhookReceive(p, S) ==
    /\ CanStart(p, S)
    /\ \E sig \in BOOLEAN, ty \in {"succeeded", "failed", "other"},
          i \in Intents, cur \in Currencies :
         LET out  == WebhookOutcome(sig, ty)
             drop == out # 0
         IN Step(p, [Idle EXCEPT
                       !.op = "webhook",
                       !.pc = IF drop THEN "done" ELSE "upsert",
                       !.intent = i,
                       !.seen = IF sig /\ resp.op = "webhook"
                                   /\ resp.code = 200 /\ resp.intent = i
                                   /\ resp.orig = ty
                                   /\ resp.price = paymentAmount(EventCents)
                                   /\ resp.msg = toLowerCase(cur)
                                THEN 1 ELSE 0,
                       !.orig = IF sig THEN ty ELSE "",
                       !.price = paymentAmount(EventCents),
                       !.msg = IF sig THEN toLowerCase(cur) ELSE "",
                       !.bid = IF drop THEN NULL
                               ELSE AssociatedBooking(bookings, i),
                       !.conns = IF drop THEN 0 ELSE 1,
                       !.code = out])
    /\ UNCHANGED <<today, bookings, payments, windows, refunds, catalog,
                 lastBookingId>>

\* The upsert of the Payments row and COMMIT.
WebhookUpsert(p) ==
    /\ slot[p].op = "webhook" /\ slot[p].pc = "upsert"
    /\ payments' = UpsertPayment(payments, slot[p].bid, slot[p].intent,
                                 slot[p].price, slot[p].msg, slot[p].orig)
    /\ Answer(p, [slot[p] EXCEPT !.code = 200,
                                 !.conns = slot[p].conns - 1])
    /\ UNCHANGED <<today, bookings, windows, refunds, catalog,
                 lastBookingId>>

\* --------------------------- scheduled task updatePastBookingsToCompleted

\* SELECT of the confirmed bookings whose end_date is before today.
SweepSelect(p, S) ==
    /\ CanStart(p, S)
    /\ LET todo == BookingsToUpdate(bookings, today)
       IN Step(p, [Idle EXCEPT
                     !.op = "sweep",
                     !.pc = IF todo = <<>> THEN "done" ELSE "loop",
                     !.sd = today,
                     !.seen = IF resp.op = "sweep" /\ resp.msg = "swept"
                                 /\ resp.sd = today
                              THEN 1 + resp.n ELSE 0,
                     !.msg = "swept",
                     !.todo = todo])
    /\ UNCHANGED <<today, bookings, payments, windows, refunds, catalog,
                 lastBookingId>>

\* One pass of the loop: UPDATE Bookings SET status_id = <completed>
\* WHERE booking_id = ? (autocommit), updatedCount++.
SweepUpdate(p) ==
    /\ slot[p].op = "sweep" /\ slot[p].pc = "loop"
    /\ ~Locked(Head(slot[p].todo))
    /\ bookings' = SetStatus(bookings, Head(slot[p].todo), "completed")
    /\ Step(p, [slot[p] EXCEPT
                  !.todo = Tail(slot[p].todo),
                  !.n = slot[p].n + 1,
                  !.pc = IF Tail(slot[p].todo) = <<>> THEN "done" ELSE "loop"])
    /\ UNCHANGED <<today, payments, windows, refunds, catalog,
                 lastBookingId>>

\* The UPDATE of a pass throws (connection lost, lock wait timeout): the
\* one try/catch around the whole task logs the error and the run ends; the
\* bookings left in the list are not visited.  bid keeps the booking whose
\* UPDATE failed.
SweepFail(p) ==
    /\ slot[p].op = "sweep" /\ slot[p].pc = "loop"
    /\ Answer(p, [slot[p] EXCEPT !.msg = "error",
                                 !.bid = Head(slot[p].todo)])
    /\ UNCHANGED <<today, bookings, payments, windows, refunds, catalog,
                 lastBookingId>>

\* -------------------------- POST /locations/:location_id/unavailability

\* The owner check of a request to add a window: getConnection,
\* beginTransaction and SELECT user_id FROM Locations.  A location that is
\* not stored answers 404, another user's location 403, after a rollback.
\* The two dates are kept as sent: nothing compares them.  us, ls: the
\* requesters and locations drawn.
AddUnavailabilityCheck(us, ls) ==
    /\ Free(Desk)
    /\ Len(windows) < MaxWindows
    /\ \E u \in us, l \in ls, ws \in Days, we \in Days :
         LET code == IF l \notin DOMAIN locations THEN 404
                     ELSE IF locations[l].user_id # u THEN 403
                     ELSE 0
         IN Step(Desk, [Idle EXCEPT
                          !.op = "add_window",
                          !.pc = IF code = 0 THEN "insert" ELSE "done",
                          !.user = u, !.loc = l, !.sd = ws, !.ed = we,
                          !.conns = IF code = 0 THEN 1 ELSE 1 - 1,
                          !.code = code])
    /\ UNCHANGED <<today, bookings, payments, windows, refunds, catalog,
                 lastBookingId>>

\* INSERT INTO locationunavailabilities and COMMIT, whatever has become of
\* the location since the owner check.
AddUnavailabilityInsert ==
    /\ slot[Desk].op = "add_window" /\ slot[Desk].pc = "insert"
    /\ windows' = Append(windows,
          [location_id |-> slot[Desk].loc, start_date |-> slot[Desk].sd,
           end_date |-> slot[Desk].ed])
    /\ Answer(Desk, [slot[Desk] EXCEPT !.code = 201,
                                       !.conns = slot[Desk].conns - 1])
    /\ UNCHANGED <<today, bookings, payments, refunds, catalog,
                 lastBookingId>>

\* ------- DELETE /locations/:location_id/unavailability/:unavailability_id

\* The table w without its k-th row
RemoveAt(w, k) ==
    [j \in 1..(Len(w) - 1) |-> IF j < k THEN w[j] ELSE w[j + 1]]

\* The owner check of a request to delete the stored window k of location
\* l: 404 / 403 as for adding one.
DeleteUnavailabilityCheck(us, ls) ==
    /\ Free(Desk)
    /\ \E u \in us, l \in ls, k \in 1..Len(windows) :
         LET code == IF l \notin DOMAIN locations THEN 404
                     ELSE IF locations[l].user_id # u THEN 403
                     ELSE 0
         IN Step(Desk, [Idle EXCEPT
                          !.op = "delete_window",
                          !.pc = IF code = 0 THEN "delete" ELSE "done",
                          !.user = u, !.loc = l, !.win = k,
                          !.conns = IF code = 0 THEN 1 ELSE 1 - 1,
                          !.code = code])
    /\ UNCHANGED <<today, bookings, payments, windows, refunds, catalog,
                 lastBookingId>>

\* SELECT of the window by its id and the location's id (404 when the
\* window belongs to another location), DELETE by its id and COMMIT,
\* whatever has become of the location since the owner check.
DeleteUnavailabilityDelete ==
    /\ slot[Desk].op = "delete_window" /\ slot[Desk].pc = "delete"
    /\ LET r     == slot[Desk]
           found == windows[r.win].location_id = r.loc
       IN /\ windows' = IF found THEN RemoveAt(windows, r.win) ELSE windows
          /\ Answer(Desk, [r EXCEPT !.code = IF found THEN 200 ELSE 404,
                                    !.conns = r.conns - 1])
    /\ UNCHANGED <<today, bookings, payments, refunds, catalog,
                 lastBookingId>>

\* ------------------------------------------------------ POST /locations

\* A user of owners adds a location: getConnection, beginTransaction and
\* INSERT INTO Locations, which takes the next id at once; the row reaches
\* the table at COMMIT.  n is the number of campsite_types the request
\* carries.  A request without its required fields is answered 400 before
\* any query; such requests are not among the inputs drawn.
CreateLocationInsert(owners) ==
    /\ Free(Desk)
    /\ lastLocationId < MaxLocations
    /\ lastLocationId' = lastLocationId + 1
    /\ \E u \in owners, ppn \in Prices, types \in 0..1 :
         Continue(Desk, [Idle EXCEPT !.op = "create_location",
                                     !.pc = "commit", !.user = u,
                                     !.loc = lastLocationId + 1,
                                     !.ppn = ppn, !.n = types,
                                     !.conns = 1])
    /\ UNCHANGED <<today, bookings, payments, windows, refunds, locations,
                 users, lastBookingId, lastUserId>>

\* With campsite_types in the request: INSERT INTO LocationCampsiteTypes
\* and COMMIT, the row is stored (201) and the finally block releases the
\* connection.  Without, the handler reads the undeclared campsite_type_id
\* and throws: the INSERT is rolled back, its id is not handed out again,
\* the answer is 500 and the connection is released in the catch block and
\* again in the finally block.
CreateLocationCommit ==
    /\ slot[Desk].op = "create_location" /\ slot[Desk].pc = "commit"
    /\ LET r == slot[Desk]
       IN IF r.n > 0
          THEN /\ locations' = InsertRow(locations, r.loc,
                      [user_id |-> r.user, price_per_night |-> r.ppn])
               /\ Answer(Desk, [r EXCEPT !.code = 201,
                                         !.conns = r.conns - 1])
          ELSE /\ locations' = locations
               /\ Answer(Desk, [r EXCEPT !.code = 500,
                                         !.conns = (r.conns - 1) - 1])
    /\ UNCHANGED <<today, bookings, payments, windows, refunds, users,
                 lastBookingId, lastLocationId, lastUserId>>

\* --------------------------------------------------- PUT /locations/:id

\* The owner of an existing location sets its price_per_night; other
\* requesters are answered 404 / 403 and change nothing.  The UPDATE waits
\* for the row lock of an open account deletion and then finds no row.
UpdateLocation ==
    /\ \E u \in Users, l \in DOMAIN locations, ppn \in Prices :
         /\ locations[l].user_id = u
         /\ ~LockedLocation(l)
         /\ locations' = [locations EXCEPT ![l].price_per_night = ppn]
    /\ resp' = Idle
    /\ UNCHANGED <<today, bookings, payments, windows, refunds, users,
                 lastBookingId, lastLocationId, lastUserId, slot>>

\* ------------------------------------------------ DELETE /locations/:id

\* The owner of an existing location deletes it; other requesters are
\* answered 404 / 403 and change nothing.  The statement that would delete
\* the location's bookings is commented out in the source, and no statement
\* deletes its unavailability windows: both stay.
DeleteLocation ==
    /\ \E u \in Users, l \in DOMAIN locations :
         /\ locations[l].user_id = u
         /\ ~LockedLocation(l)
         /\ locations' = DeleteRows(locations, {l})
    /\ resp' = Idle
    /\ UNCHANGED <<today, bookings, payments, windows, refunds, users,
                 lastBookingId, lastLocationId, lastUserId, slot>>

\* ---------------------------------------------------- POST /auth/register

\* A new account: INSERT INTO users under the next id.
Register ==
    /\ lastUserId < MaxUsers
    /\ users' = users \cup {lastUserId + 1}
    /\ lastUserId' = lastUserId + 1
    /\ resp' = Idle
    /\ UNCHANGED <<today, bookings, payments, windows, refunds, locations,
                 lastBookingId, lastLocationId, slot>>

\* ------------------------------------------------- DELETE /users/delete

\* Bookings rows of user u / Locations rows owned by user u
BookingsOf(bks, u)  == {b \in DOMAIN bks : bks[b].user_id = u}
LocationsOf(locs, u) == {l \in DOMAIN locs : locs[l].user_id = u}

\* The router of routes/users.js: a user of us with a Users row and the
\* right password deletes the account: DELETE FROM Users WHERE user_id = ?.
\* The other tables are left alone.
DeleteUser(us) ==
    /\ \E u \in us \cap users : users' = users \ {u}
    /\ resp' = Idle
    /\ UNCHANGED <<today, bookings, payments, windows, refunds, locations,
                 lastBookingId, lastLocationId, lastUserId, slot>>

\* The users router with the cascade.  Its first await: SELECT * FROM Users
\* WHERE user_id = ? and the password check; a user of us without a Users
\* row is answered 404.
DeleteAccountCheck(us) ==
    /\ Free(Desk)
    /\ \E u \in us :
         Step(Desk, [Idle EXCEPT
                       !.op = "delete_account",
                       !.pc = IF u \in users THEN "bookings" ELSE "done",
                       !.user = u,
                       !.code = IF u \in users THEN 0 ELSE 404])
    /\ UNCHANGED <<today, bookings, payments, windows, refunds, catalog,
                 lastBookingId>>

\* A create request of user u has run its INSERT INTO Bookings and not
\* yet committed or rolled back: its transaction holds the lock of the row.
UncommittedInsert(u) ==
    \E q \in Slots : /\ slot[q].op = "create" /\ slot[q].pc = "commit"
                     /\ slot[q].user = u

\* getConnection, beginTransaction, DELETE FROM Bookings WHERE user_id = ?
\* on the rows stored now; the statement waits for the row lock of an open
\* cancel transaction and for that of a row of the user inserted and not
\* yet committed.  The rows leave the table at COMMIT.
DeleteAccountBookings ==
    /\ slot[Desk].op = "delete_account" /\ slot[Desk].pc = "bookings"
    /\ ~UncommittedInsert(slot[Desk].user)
    /\ LET mine == BookingsOf(bookings, slot[Desk].user)
       IN /\ \A b \in mine : ~Locked(b)
          /\ Continue(Desk, [slot[Desk] EXCEPT !.pc = "locations",
                                               !.bks = mine,
                                               !.conns = 1])
    /\ UNCHANGED <<today, bookings, payments, windows, refunds, catalog,
                 lastBookingId>>

\* DELETE FROM Locations WHERE user_id = ? on the rows stored now.
DeleteAccountLocations ==
    /\ slot[Desk].op = "delete_account" /\ slot[Desk].pc = "locations"
    /\ Continue(Desk, [slot[Desk] EXCEPT
                         !.pc = "commit",
                         !.locs = LocationsOf(locations, slot[Desk].user)])
    /\ UNCHANGED <<today, bookings, payments, windows, refunds, catalog,
                 lastBookingId>>

\* DELETE FROM Users WHERE user_id = ? and COMMIT: the deleted rows leave
\* their tables.  Payments rows and unavailability windows stay.
DeleteAccountCommit ==
    /\ slot[Desk].op = "delete_account" /\ slot[Desk].pc = "commit"
    /\ bookings' = DeleteRows(bookings, slot[Desk].bks)
    /\ locations' = DeleteRows(locations, slot[Desk].locs)
    /\ users' = users \ {slot[Desk].user}
    /\ Answer(Desk, [slot[Desk] EXCEPT !.code = 200, !.bks = {},
                                       !.locs = {},
                                       !.conns = slot[Desk].conns - 1])
    /\ UNCHANGED <<today, payments, windows, refunds, lastBookingId,
                 lastLocationId, lastUserId>>

\* ----------------------------------------------------------- environment

\* The server's calendar day advances.
Tick ==
    /\ today < MaxDay
    /\ today' = today + 1
    /\ resp' = Idle
    /\ UNCHANGED <<bookings, payments, windows, refunds, slot, catalog,
                 lastBookingId>>

\* Bookings.stripe_payment_intent_id is read by the cancel route and by the
\* webhook, and written by no statement of the request handlers: the intent
\* reference of a booking is persisted "once known" by the linkage step,
\* which copies it from the Payments row that points at the booking.
PersistIntentRef ==
    /\ \E b \in DOMAIN bookings, k \in 1..Len(payments) :
         /\ bookings[b].stripe_payment_intent_id = NULL
         /\ payments[k].booking_id = b
         /\ ~Locked(b)
         /\ bookings' = [bookings EXCEPT ![b].stripe_payment_intent_id =
                           payments[k].stripe_payment_intent_id]
    /\ resp' = Idle
    /\ UNCHANGED <<today, payments, windows, refunds, slot, catalog,
                 lastBookingId>>

\* ------------------------------------------------------- specifications

\* Timestamps at midnight only / of a single one-night stay
DayTimes == {d * DayLen : d \in Days}
PayTimes == {0, DayLen}

\* User ids that are ever handed out
AllUsers == 1..MaxUsers

\* Availability: one booking request at a time; the renter's requests, on
\* both create routes, for the owner's location against the owner's windows
\* as the calendar advances, until the owner deletes the location.
NextAvail ==
    \/ CreateBookingValidate(1, {1}, SeqBookings,
           Renters \ {Owner}, DOMAIN SeedLocations, DayTimes, {NULL}, {NULL})
    \/ CreateBookingLookup(1)
    \/ CreateBookingCheck(1)
    \/ CreateBookingInsert(1)
    \/ CreateBookingCommit(1)
    \/ CreatePendingValidate(1, {1}, SeqBookings,
           Renters \ {Owner}, DOMAIN SeedLocations, DayTimes)
    \/ CreatePendingLookup(1)
    \/ CreatePendingConflicts(1)
    \/ CreatePendingInsert(1)
    \/ AddUnavailabilityCheck(Users, LocationIds)
    \/ AddUnavailabilityInsert
    \/ DeleteUnavailabilityCheck(Users, LocationIds)
    \/ DeleteUnavailabilityDelete
    \/ DeleteLocation
    \/ Tick

SpecAvail == Init /\ [][NextAvail]_vars

\* Who may book what: create requests on both routes, one at a time, by
\* the owner and by a renter, while locations are added, repriced and
\* deleted and accounts are deleted, as the calendar advances.
NextOwner ==
    \/ CreateBookingValidate(1, {1}, SeqBookings,
           Renters, LocationIds, PayTimes, {NULL}, {NULL})
    \/ CreateBookingLookup(1)
    \/ CreateBookingCheck(1)
    \/ CreateBookingInsert(1)
    \/ CreateBookingCommit(1)
    \/ CreatePendingValidate(1, {1}, SeqBookings,
           Renters, LocationIds, PayTimes)
    \/ CreatePendingLookup(1)
    \/ CreatePendingConflicts(1)
    \/ CreatePendingInsert(1)
    \/ CreateLocationInsert(Renters)
    \/ CreateLocationCommit
    \/ UpdateLocation
    \/ DeleteLocation
    \/ DeleteAccountCheck(Renters)
    \/ DeleteAccountBookings
    \/ DeleteAccountLocations
    \/ DeleteAccountCommit
    \/ Tick

SpecOwner == Init /\ [][NextOwner]_vars

\* Concurrent creation and cancellation: two requests in flight.
NextConc ==
    \/ \E p \in Slots : CreateBookingValidate(p, Slots, MaxBookings,
           Renters, LocationIds, DayTimes, {NULL}, {NULL})
    \/ \E p \in Slots : CreateBookingLookup(p)
    \/ \E p \in Slots : CreateBookingCheck(p)
    \/ \E p \in Slots : CreateBookingInsert(p)
    \/ \E p \in Slots : CreateBookingCommit(p)
    \/ \E p \in Slots : CreatePendingValidate(p, Slots, MaxBookings,
           Renters \ {Owner}, DOMAIN SeedLocations, DayTimes)
    \/ \E p \in Slots : CreatePendingLookup(p)
    \/ \E p \in Slots : CreatePendingConflicts(p)
    \/ \E p \in Slots : CreatePendingInsert(p)
    \/ \E p \in Slots : CancelPutRead(p, Slots, MaxBookings)
    \/ \E p \in Slots : CancelPutUpdate(p)
    \/ AddUnavailabilityCheck({Owner}, DOMAIN SeedLocations)
    \/ AddUnavailabilityInsert
    \/ DeleteUnavailabilityCheck({Owner}, DOMAIN SeedLocations)
    \/ DeleteUnavailabilityDelete

SpecConc == Init /\ [][NextConc]_vars

\* Payments, one request at a time: creation with an intent id, gateway
\* events, cancellation on both routes and refund.
NextPaySeq ==
    \/ CreateBookingValidate(1, {1}, SeqBookings,
           Renters, LocationIds, PayTimes, Intents \cup {NULL}, {NULL})
    \/ CreateBookingLookup(1)
    \/ CreateBookingCheck(1)
    \/ CreateBookingInsert(1)
    \/ CreateBookingCommit(1)
    \/ CreatePendingValidate(1, {1}, SeqBookings,
           Renters \ {Owner}, DOMAIN SeedLocations, PayTimes)
    \/ CreatePendingLookup(1)
    \/ CreatePendingConflicts(1)
    \/ CreatePendingInsert(1)
    \/ CancelPutRead(1, {1}, SeqBookings)
    \/ CancelPutUpdate(1)
    \/ CancelRead(1, {1}, SeqBookings)
    \/ CancelUpdate(1)
    \/ CancelRefund(1)
    \/ CancelCommit(1)
    \/ WebhookReceive(1, {1})
    \/ WebhookUpsert(1)
    \/ PersistIntentRef

SpecPaySeq == Init /\ [][NextPaySeq]_vars

\* Creation alone, one request at a time: timestamps at any hour, with or
\* without a client-supplied total price, as the calendar advances.
NextCreate ==
    \/ CreateBookingValidate(1, {1}, SeqBookings,
           Renters, LocationIds, Times, {NULL}, ClientPrices)
    \/ CreateBookingLookup(1)
    \/ CreateBookingCheck(1)
    \/ CreateBookingInsert(1)
    \/ CreateBookingCommit(1)
    \/ Tick

SpecCreate == Init /\ [][NextCreate]_vars

\* The sweep alone over several bookings, with UPDATEs that may fail.
NextSweep ==
    \/ CreateBookingValidate(1, {1}, MaxBookings,
           Renters, LocationIds, DayTimes, {NULL}, {NULL})
    \/ CreateBookingLookup(1)
    \/ CreateBookingCheck(1)
    \/ CreateBookingInsert(1)
    \/ CreateBookingCommit(1)
    \/ CreatePendingValidate(1, {1}, MaxBookings,
           Renters \ {Owner}, DOMAIN SeedLocations, DayTimes)
    \/ CreatePendingLookup(1)
    \/ CreatePendingConflicts(1)
    \/ CreatePendingInsert(1)
    \/ SweepSelect(1, {1})
    \/ SweepUpdate(1)
    \/ SweepFail(1)
    \/ Tick

SpecSweep == Init /\ [][NextSweep]_vars

\* Lifecycle, one booking request at a time: creation on both routes, both
\* cancel routes, the sweep, the registration and deletion of accounts and
\* the calendar.
NextLifeSeq ==
    \/ CreateBookingValidate(1, {1}, SeqBookings,
           Renters, LocationIds, PayTimes, Intents \cup {NULL}, {NULL})
    \/ CreateBookingLookup(1)
    \/ CreateBookingCheck(1)
    \/ CreateBookingInsert(1)
    \/ CreateBookingCommit(1)
    \/ CreatePendingValidate(1, {1}, SeqBookings,
           Renters, LocationIds, PayTimes)
    \/ CreatePendingLookup(1)
    \/ CreatePendingConflicts(1)
    \/ CreatePendingInsert(1)
    \/ CancelRead(1, {1}, SeqBookings)
    \/ CancelUpdate(1)
    \/ CancelRefund(1)
    \/ CancelCommit(1)
    \/ CancelPutRead(1, {1}, SeqBookings)
    \/ CancelPutUpdate(1)
    \/ SweepSelect(1, {1})
    \/ SweepUpdate(1)
    \/ Register
    \/ DeleteUser(AllUsers)
    \/ DeleteAccountCheck(AllUsers)
    \/ DeleteAccountBookings
    \/ DeleteAccountLocations
    \/ DeleteAccountCommit
    \/ Tick
    \/ PersistIntentRef

SpecLifeSeq == Init /\ [][NextLifeSeq]_vars

\* The PATCH cancel route with a database that can fail at COMMIT, and
\* the gateway events, one request at a time.
NextCancelFail ==
    \/ CreateBookingValidate(1, {1}, SeqBookings,
           Renters, LocationIds, PayTimes, Intents \cup {NULL}, {NULL})
    \/ CreateBookingLookup(1)
    \/ CreateBookingCheck(1)
    \/ CreateBookingInsert(1)
    \/ CreateBookingCommit(1)
    \/ CancelRead(1, {1}, SeqBookings)
    \/ CancelUpdate(1)
    \/ CancelRefund(1)
    \/ CancelCommit(1)
    \/ CancelCommitFails(1)
    \/ WebhookReceive(1, {1})
    \/ WebhookUpsert(1)
    \/ PersistIntentRef

SpecCancelFail == Init /\ [][NextCancelFail]_vars

\* The PATCH cancel route racing the sweep: two of them in flight.
NextRace ==
    \/ \E p \in Slots : CreateBookingValidate(p, Slots, SeqBookings,
           Renters, LocationIds, PayTimes, Intents \cup {NULL}, {NULL})
    \/ \E p \in Slots : CreateBookingLookup(p)
    \/ \E p \in Slots : CreateBookingCheck(p)
    \/ \E p \in Slots : CreateBookingInsert(p)
    \/ \E p \in Slots : CreateBookingCommit(p)
    \/ \E p \in Slots : CancelRead(p, Slots, SeqBookings)
    \/ \E p \in Slots : CancelUpdate(p)
    \/ \E p \in Slots : CancelRefund(p)
    \/ \E p \in Slots : CancelCommit(p)
    \/ \E p \in Slots : SweepSelect(p, Slots)
    \/ \E p \in Slots : SweepUpdate(p)
    \/ Tick
    \/ PersistIntentRef

SpecRace == Init /\ [][NextRace]_vars

\* ---------------------------------------------------------------- claims

\* Rows of Bookings that are not cancelled
Active(b) == bookings[b].status # "cancelled"

\* A request or response r (location loc, dates sd..ed) overlaps, under the
\* half-open rule, a non-cancelled booking among those with ids in B
OverlapsBookingAmong(r, B) ==
    \E b \in B \cap DOMAIN bookings :
        /\ Active(b)
        /\ bookings[b].location_id = r.loc
        /\ Overlaps(r.sd, r.ed, bookings[b].start_date, bookings[b].end_date)
OverlapsBooking(r) == OverlapsBookingAmong(r, DOMAIN bookings)

\* ... overlaps, under the half-open rule, a window of its location
OverlapsWindow(r) ==
    \E k \in 1..Len(windows) :
        /\ windows[k].location_id = r.loc
        /\ Overlaps(r.sd, r.ed, windows[k].start_date, windows[k].end_date)

\* ... only touches a window (of at least one day) or a non-cancelled
\* booking of its location: its start is the other's end, or its end the
\* other's start
TouchesSomething(r) ==
    \/ \E k \in 1..Len(windows) :
          /\ windows[k].location_id = r.loc
          /\ windows[k].start_date < windows[k].end_date
          /\ (windows[k].end_date = r.sd \/ windows[k].start_date = r.ed)
    \/ \E b \in DOMAIN bookings :
          /\ Active(b) /\ bookings[b].location_id = r.loc
          /\ (bookings[b].end_date = r.sd \/ bookings[b].start_date = r.ed)

\* A create request for a stored location by another user than its owner
\* that spans at least one night
ValidCreate(r) ==
    /\ r.op \in CreateOps
    /\ r.sd < r.ed
    /\ r.loc \in DOMAIN locations
    /\ locations[r.loc].user_id # r.user

\* This step answers a request at its first step (the slots do not move).
AnsweredAtOnce == slot' = slot /\ resp'.op # "idle"

\* This step is slot p finishing its request with an answer.
Finishes(p) == slot[p].pc # "done" /\ slot'[p] = Idle

\* This step answers a create request that passed validation at its
\* location lookup.
AnsweredByLookup ==
    \E p \in Slots : slot[p].op \in CreateOps /\ slot[p].pc = "lookup"
                      /\ Finishes(p)

\* This step answers a create request at its availability check, before
\* any INSERT.
AnsweredByCheck ==
    \E p \in Slots : slot[p].op \in CreateOps
                      /\ slot[p].pc \in {"check", "conflicts"}
                      /\ Finishes(p)

\* This step takes the create request of slot p past its location lookup.
PassesLookup(p) ==
    slot[p].op \in CreateOps /\ slot[p].pc = "lookup"
    /\ slot'[p].pc \in {"check", "conflicts"}

\* This step takes the create request of slot p past its availability
\* check, to its INSERT.
ReachesInsert(p) ==
    slot[p].pc # "insert" /\ slot'[p].op \in CreateOps
    /\ slot'[p].pc = "insert"

\* This step is the create request of slot p (the route that stores a
\* confirmed booking) ending its transaction.
FinishesInsert(p) ==
    slot[p].op = "create" /\ slot[p].pc = "commit" /\ Finishes(p)

TablesUnchanged ==
    UNCHANGED <<bookings, payments, windows, refunds, locations, users>>

\* C1: in every reachable state, two non-cancelled bookings of the same
\* location have disjoint date ranges under the half-open rule.
C1_NoOverlappingBookings ==
    \A a \in DOMAIN bookings, b \in DOMAIN bookings :
        (a < b /\ Active(a) /\ Active(b)
         /\ bookings[a].location_id = bookings[b].location_id)
        => ~Overlaps(bookings[a].start_date, bookings[a].end_date,
                     bookings[b].start_date, bookings[b].end_date)

\* C2: when a create request ends its transaction after another request
\* has, since its availability check, stored a non-cancelled booking of the
\* same location with an overlapping range, it is answered with the conflict
\* error and inserts nothing: of concurrent overlapping requests one wins.
C2_ConcurrentCreateOneWins ==
    [][\A p \in Slots :
         (FinishesInsert(p)
          /\ OverlapsBookingAmong(slot[p], DOMAIN bookings \ slot[p].view))
         => (resp'.code = 409 /\ bookings' = bookings)]_vars

\* C3: a create request whose range overlaps a non-cancelled booking of the
\* same location that existed when the request ran its availability check
\* (and still exists) is answered with the conflict error and inserts no
\* Bookings row.
C3_ConflictWithExistingBooking ==
    [][\A p \in Slots :
         (FinishesInsert(p)
          /\ OverlapsBookingAmong(slot[p], slot[p].view))
         => (resp'.code = 409 /\ bookings' = bookings)]_vars

\* C4: a create request, on either create route, whose range overlaps an
\* unavailability window that its location has when its availability check
\* runs never gets past that check: it is answered 409 and no table
\* changes.  Such a request is answered earlier, at the location lookup,
\* only when the location is not stored or is the requester's own, and
\* then too no table changes.
C4_ConflictWithWindow ==
    [][/\ \A p \in Slots : ReachesInsert(p) => ~OverlapsWindow(slot'[p])
       /\ (AnsweredByCheck /\ OverlapsWindow(resp'))
            => (resp'.code = 409 /\ TablesUnchanged)
       /\ (AnsweredByLookup /\ OverlapsWindow(resp'))
            => (~ValidCreate(resp') /\ TablesUnchanged)]_vars

\* C5: a valid create request that only touches a window or a non-cancelled
\* booking of its location (start = the other's end, or end = the other's
\* start) and overlaps none under the half-open rule is not answered with a
\* conflict.
C5_BoundaryTouchAccepted ==
    [][(AnsweredByCheck /\ ValidCreate(resp') /\ TouchesSomething(resp')
        /\ ~OverlapsWindow(resp') /\ ~OverlapsBooking(resp'))
       => resp'.code # 409]_vars


\* Number of refund requests the gateway accepted for an intent
RefundCount(rs, i) == Cardinality({k \in 1..Len(rs) : rs[k] = i})

\* C7: in both arrival orders the intent ends with exactly one Payments row
\* linked to the booking.  Event first: the create request that carries the
\* intent of a Payments row with no booking succeeds and that row points at
\* the new booking.  Booking first: a succeeded event for the intent of a
\* Payments row that points at a booking leaves exactly that one row, linked.
C7_BothArrivalOrdersLink ==
    [][\A p \in Slots :
         LET i    == slot[p].intent
             rows == PaymentRows(payments', i)
         IN /\ (FinishesInsert(p) /\ i # NULL
                /\ \E k \in PaymentRows(payments, i) :
                      /\ payments[k].booking_id = NULL
                      /\ payments[k].status = "succeeded")
               => (resp'.code = 201 /\ Cardinality(rows) = 1
                   /\ \A k \in rows : payments'[k].booking_id = resp'.bid)
            /\ (slot[p].op = "webhook" /\ Finishes(p)
                /\ slot[p].orig = "succeeded"
                /\ \E k \in PaymentRows(payments, i) :
                      payments[k].booking_id # NULL)
               => (Cardinality(rows) = 1
                   /\ \A k \in rows :
                        /\ payments'[k].booking_id = payments[k].booking_id
                        /\ payments'[k].status = "succeeded")]_vars

\* C8: processing a verified payment event that repeats the event
\* processed just before it leaves the Payments table as the first
\* processing left it: one row for the intent, with the event's status.
C8_ReplayIsIdempotent ==
    [][\A p \in Slots :
         (slot[p].op = "webhook" /\ Finishes(p) /\ slot[p].seen = 1)
         => /\ payments' = payments
            /\ Cardinality(PaymentRows(payments', slot[p].intent)) = 1
            /\ \A k \in PaymentRows(payments', slot[p].intent) :
                  payments'[k].status = slot[p].orig]_vars

\* C8 witness: the second delivery of a payment_failed event has been
\* processed and answered, for an intent whose row a create request inserted.
C8_Witness ==
    /\ resp.op = "webhook" /\ resp.code = 200 /\ resp.seen = 1
    /\ resp.orig = "failed"
    /\ \E k \in PaymentRows(payments, resp.intent) :
          payments[k].booking_id # NULL /\ payments[k].status = "failed"

\* C9: a cancel request (either route) on a cancelled booking never reaches
\* its UPDATE, changes no table and sends no refund; it is answered with the
\* already-finalized error (on the PUT route, when sent by the booking's
\* renter, the only user that route serves); with requests served one at a
\* time the gateway accepts at most one refund per intent.
C9_CancelOfCancelledIsNoOp ==
    [][/\ \A p \in Slots :
            (Free(p) /\ slot'[p].op \in {"cancel", "cancel_put"}
             /\ slot'[p].pc = "update")
            => bookings[slot'[p].bid].status # "cancelled"
       /\ (AnsweredAtOnce /\ resp'.op \in {"cancel", "cancel_put"}
           /\ resp'.bid \in DOMAIN bookings
           /\ bookings[resp'.bid].status = "cancelled")
            => /\ TablesUnchanged
               /\ (resp'.op = "cancel"
                   \/ resp'.user = bookings[resp'.bid].user_id)
                  => (resp'.code = 400 /\ resp'.msg = "already_finalized")
       /\ \A i \in Intents : RefundCount(refunds', i) <= 1]_vars

\* C9 witness: a booking was cancelled with a refund, and a later cancel of
\* it was answered already-finalized.
C9_Witness ==
    /\ resp.op = "cancel" /\ resp.code = 400
    /\ resp.msg = "already_finalized"
    /\ resp.bid \in DOMAIN bookings
    /\ bookings[resp.bid].status = "cancelled"
    /\ bookings[resp.bid].stripe_payment_intent_id # NULL
    /\ RefundCount(refunds, bookings[resp.bid].stripe_payment_intent_id) = 1

\* C10: when the refund call of an accepted cancel failed, the COMMIT
\* stores the booking as cancelled, leaves the Payments table as it was, and
\* the answer reports the failed refund.
C10_RefundFailureKeepsCancellation ==
    [][\A p \in Slots :
         (slot[p].op = "cancel" /\ Finishes(p) /\ slot[p].refund = "failed")
         => /\ bookings'[slot[p].bid].status = "cancelled"
            /\ payments' = payments
            /\ resp'.code = 200 /\ resp'.msg = "cancelled"
            /\ resp'.refund = "failed"]_vars

\* C10 witness: a cancel was answered with a failed refund, the gateway
\* having accepted none; the booking is cancelled and the Payments row of
\* its intent is still succeeded.
C10_Witness ==
    /\ resp.op = "cancel" /\ resp.code = 200 /\ resp.refund = "failed"
    /\ RefundCount(refunds, resp.ref) = 0
    /\ bookings[resp.bid].status = "cancelled"
    /\ \E k \in PaymentRows(payments, resp.ref) :
          payments[k].status = "succeeded"

\* Payments rows linked to booking b (positions in the table)
LinkedPayments(b) == {k \in 1..Len(payments) : payments[k].booking_id = b}

\* A Payments row linked to booking b has status succeeded
LinkedSucceeded(b) ==
    \E k \in LinkedPayments(b) : payments[k].status = "succeeded"

\* C11: an accepted cancel (PATCH route) has attempted a gateway refund if
\* and only if a Payments row linked to the booking has status succeeded;
\* otherwise its refund outcome is not-applicable.
C11_RefundIffLinkedPaymentSucceeded ==
    [][\A p \in Slots :
         (slot[p].op = "cancel" /\ Finishes(p) /\ resp'.code = 200)
         => /\ (slot[p].refund \in {"succeeded", "failed"})
                 <=> LinkedSucceeded(slot[p].bid)
            /\ ~LinkedSucceeded(slot[p].bid)
                 => (resp'.refund = "not_applicable"
                     /\ refunds' = refunds)]_vars

\* C12: when the renter's cancel of a booking whose linked Payments row has
\* status succeeded is accepted and the gateway did not fail, the booking
\* ends cancelled, a refund was requested for the row's intent, the row is
\* refunded and the answer reports the refund as succeeded.
C12_CancelOfPaidBookingRefunds ==
    [][\A p \in Slots :
         (slot[p].op = "cancel" /\ Finishes(p) /\ resp'.code = 200
          /\ slot[p].user = bookings[slot[p].bid].user_id
          /\ slot[p].refund # "failed"
          /\ LinkedSucceeded(slot[p].bid))
         => /\ bookings'[slot[p].bid].status = "cancelled"
            /\ resp'.refund = "succeeded"
            /\ \A k \in LinkedPayments(slot[p].bid) :
                 /\ payments'[k].status = "refunded"
                 /\ RefundCount(refunds',
                                payments[k].stripe_payment_intent_id) >= 1]_vars

\* This step is the sweep in slot p running the UPDATE of its loop.
SweepUpdates(p) ==
    slot[p].op = "sweep" /\ slot[p].pc = "loop" /\ slot'[p] # slot[p]

\* updatedCount of the sweep in slot p after this step
UpdatedCountAfter(p) ==
    IF slot'[p].op = "sweep" THEN slot'[p].n ELSE resp'.n

\* C13: a step of the sweep changes the status of no booking that is
\* cancelled at that moment and of no booking whose end_date is today or
\* later, whatever cancel requests run beside it.
C13_SweepSparesCancelledAndCurrent ==
    [][\A p \in Slots, b \in DOMAIN bookings :
         (SweepUpdates(p) /\ bookings'[b].status # bookings[b].status)
         => (bookings[b].status # "cancelled"
             /\ bookings[b].end_date < today)]_vars

\* C14: when a PATCH cancel and the sweep race on one confirmed, past-dated
\* booking, the one that comes second loses: a sweep UPDATE that finds the
\* booking cancelled changes no row and counts nothing; a cancel that
\* finishes on a booking the sweep completed meanwhile changes no row, is
\* answered already-finalized and has sent no successful refund.
C14_CancelSweepRaceOneWins ==
    [][\A p \in Slots :
         /\ (SweepUpdates(p)
             /\ bookings[Head(slot[p].todo)].status = "cancelled")
            => (bookings' = bookings /\ UpdatedCountAfter(p) = slot[p].n)
         /\ (slot[p].op = "cancel" /\ Finishes(p)
             /\ slot[p].orig = "confirmed"
             /\ bookings[slot[p].bid].status = "completed")
            => (bookings' = bookings /\ resp'.code = 400
                /\ slot[p].refund # "succeeded")]_vars

\* C15: a booking starts pending or confirmed and its status only moves
\* from pending to confirmed or cancelled and from confirmed to completed
\* or cancelled; a completed or cancelled booking keeps its status in every
\* step, as long as its row is stored.
C15_TerminalStatuses ==
    [][/\ \A b \in DOMAIN bookings \cap DOMAIN bookings' :
            bookings'[b].status # bookings[b].status
            => \/ (bookings[b].status = "pending"
                   /\ bookings'[b].status \in {"confirmed", "cancelled"})
               \/ (bookings[b].status = "confirmed"
                   /\ bookings'[b].status \in {"completed", "cancelled"})
       /\ \A b \in DOMAIN bookings' \ DOMAIN bookings :
            bookings'[b].status \in {"pending", "confirmed"}]_vars

\* C16: a cancel request (either route) for an existing booking by a user
\* who is neither its renter nor the owner of its location never reaches
\* its UPDATE, changes no table, and is answered with the authorization
\* error whatever the booking's status: 403 on the PATCH route, the 404
\* "not found or no permission" on the PUT route.
C16_StrangerCancelIsForbidden ==
    [][/\ \A p \in Slots :
            (Free(p) /\ slot'[p].op \in {"cancel", "cancel_put"}
             /\ slot'[p].pc = "update")
            => canCancel(bookings[slot'[p].bid], slot'[p].user)
       /\ (AnsweredAtOnce /\ resp'.op \in {"cancel", "cancel_put"}
           /\ resp'.bid \in DOMAIN bookings
           /\ ~canCancel(bookings[resp'.bid], resp'.user))
            => /\ TablesUnchanged
               /\ \/ resp'.code = 403
                  \/ (resp'.op = "cancel_put" /\ resp'.code = 404)]_vars

\* total_price the server computes for a create request r from the
\* price_per_night it read
ComputedPrice(r) == r.n * r.ppn + ServiceFee

\* C17: every booking a create request stores has total_price = nights x
\* price_per_night + fee, nights being the request's ceil((end - start) /
\* one day); a request whose client-supplied total differs stores nothing.
C17_StoredPriceIsComputed ==
    [][\A p \in Slots :
         (FinishesInsert(p)
          /\ slot[p].price # ComputedPrice(slot[p]))
         => (resp'.code # 201 /\ bookings' = bookings)]_vars

\* C18: a create request whose start day is before the day the server's
\* clock shows on its arrival never passes validation; a request rejected
\* on arrival is answered 400 and changes no table; every stored booking
\* has start_date < end_date, also when the request's two timestamps fall
\* on one calendar day.
C18_DateRangeValidated ==
    [][/\ \A p \in Slots :
            (Free(p) /\ slot'[p].op = "create" /\ slot'[p].pc = "lookup")
            => slot'[p].sd >= today
       /\ (AnsweredAtOnce /\ resp'.op = "create")
            => (resp'.code = 400 /\ TablesUnchanged)
       /\ \A b \in DOMAIN bookings' :
            bookings'[b].start_date < bookings'[b].end_date]_vars

\* A create request or response r is sent by the owner of its location
OwnLocation(r) ==
    r.loc \in DOMAIN locations /\ locations[r.loc].user_id = r.user

\* C19: no stored booking has the owner of its location as renter.  A
\* create request, on either create route, by the location's owner or for
\* a location that is not stored never gets past its location lookup and
\* changes no table; unless the date validation rejects it first (400), it
\* is answered 403 (own location) or 404 (unknown location).
C19_NoSelfBookingNoUnknownLocation ==
    [][/\ \A b \in DOMAIN bookings' :
            bookings'[b].location_id \in DOMAIN locations'
            => locations'[bookings'[b].location_id].user_id
                 # bookings'[b].user_id
       /\ \A p \in Slots :
            PassesLookup(p)
            => (slot[p].loc \in DOMAIN locations /\ ~OwnLocation(slot[p]))
       /\ (AnsweredAtOnce /\ resp'.op \in CreateOps
           /\ (OwnLocation(resp') \/ resp'.loc \notin DOMAIN locations))
            => (TablesUnchanged /\ resp'.code = 400)
       /\ (AnsweredByLookup
           /\ (OwnLocation(resp') \/ resp'.loc \notin DOMAIN locations))
            => /\ TablesUnchanged
               /\ resp'.code \in {403, 404}
               /\ resp'.code = 403 => OwnLocation(resp')
               /\ resp'.code = 404 => resp'.loc \notin DOMAIN locations]_vars

\* C20: a payment event whose signature does not verify is dropped: it
\* never reaches the upsert, it is answered with the rejection (400), and no
\* table changes.
C20_BadSignatureDropped ==
    [][/\ \A p \in Slots :
            (Free(p) /\ slot'[p].op = "webhook" /\ slot'[p].pc = "upsert")
            => slot'[p].orig # ""
       /\ (AnsweredAtOnce /\ resp'.op = "webhook" /\ resp'.orig = "")
            => (resp'.code = 400 /\ TablesUnchanged)]_vars

\* C20 witness: with a booking and its payment stored, an event with a bad
\* signature was answered 400.
C20_Witness ==
    /\ resp.op = "webhook" /\ resp.orig = "" /\ resp.code = 400
    /\ DOMAIN bookings # {} /\ payments # <<>>

\* C21: no step removes a Payments row or changes the booking_id of a row
\* whose booking_id is not NULL.
C21_BookingIdFilledOnce ==
    [][/\ Len(payments') >= Len(payments)
       /\ \A k \in 1..Len(payments) :
            payments[k].booking_id # NULL
            => payments'[k].booking_id = payments[k].booking_id]_vars

\* C21 witness: a payment event whose booking lookup found nothing was
\* processed for an intent whose row already pointed at a booking.
C21_Witness ==
    /\ resp.op = "webhook" /\ resp.code = 200 /\ resp.bid = NULL
    /\ resp.orig \in {"succeeded", "failed"}
    /\ \E k \in PaymentRows(payments, resp.intent) :
          payments[k].booking_id # NULL

\* C22: when a run of the sweep ends, no booking it selected is left
\* unvisited behind the one it was working on: a failed UPDATE of one
\* booking does not keep the others from being completed in the same run.
C22_SweepSurvivesRowFailure ==
    [][\A p \in Slots :
         (slot[p].op = "sweep" /\ Finishes(p))
         => \A i \in 2..Len(slot[p].todo) :
               bookings'[slot[p].todo[i]].status = "completed"]_vars

\* A sweep r that started in the step right after a run of the same day
\* ended without error
RerunStarts(r) == r.op = "sweep" /\ r.seen >= 1

\* C23: a run of the sweep that starts right after a run of the same day
\* that ended without error selects nothing: it never enters its loop,
\* counts zero updates and changes no table, so the bookings the first
\* run completed stay completed.
C23_SweepRerunIsNoOp ==
    [][/\ \A p \in Slots : Free(p) => ~RerunStarts(slot'[p])
       /\ (AnsweredAtOnce /\ RerunStarts(resp'))
            => (resp'.n = 0 /\ TablesUnchanged)]_vars

\* C23 witness: a run completed a booking and the run right after it ended
\* with zero updates, while another booking is still confirmed.
C23_Witness ==
    /\ RerunStarts(resp) /\ resp.seen >= 2 /\ resp.n = 0
    /\ \E b \in DOMAIN bookings : bookings[b].status = "completed"
    /\ \E b \in DOMAIN bookings : bookings[b].status = "confirmed"

\* C24: of two PATCH cancels in flight on one confirmed booking only one is
\* accepted: the cancel that finishes after the other has committed the
\* cancellation is answered already-finalized, has sent no refund request
\* and changes no table; the gateway accepts at most one refund per intent.
C24_ConcurrentCancelsOneAccepted ==
    [][/\ \A p \in Slots :
            (slot[p].op = "cancel" /\ Finishes(p)
             /\ slot[p].orig = "confirmed"
             /\ bookings[slot[p].bid].status = "cancelled")
            => (resp'.code = 400 /\ slot[p].refund = ""
                /\ TablesUnchanged)
       /\ \A i \in Intents : RefundCount(refunds', i) <= 1]_vars

\* This step is the PATCH cancel in slot p calling the gateway for a refund.
CallsRefund(p) ==
    slot[p].op = "cancel" /\ slot[p].pc = "refund" /\ slot'[p] # slot[p]

\* C25: when a PATCH cancel calls the gateway for a refund its transaction
\* is closed: the stored (committed) status of the booking is cancelled.
C25_RefundAfterCommit ==
    [][\A p \in Slots :
         CallsRefund(p) => bookings[slot[p].bid].status = "cancelled"]_vars

\* C26: in every reachable state a booking's cancellation_date is set if
\* and only if its status is cancelled.
C26_CancellationDateIffCancelled ==
    \A b \in DOMAIN bookings :
        (bookings[b].cancellation_date # NULL)
          <=> (bookings[b].status = "cancelled")

\* C27: every request is answered with all its pool connections released
\* exactly once: in every reachable state the last answer reports as many
\* release() calls as getConnection() calls.
C27_ConnectionsReleased ==
    resp.conns = 0

\* C28: a Payments row whose status has become refunded keeps that status
\* in every later step; a redelivered succeeded event for the same intent
\* does not overwrite it.
C28_RefundedIsFinal ==
    [][\A k \in 1..Len(payments) :
          payments[k].status = "refunded"
              => payments'[k].status = "refunded"]_vars

\* C29: a cancel request that ends after the gateway accepted its refund
\* leaves the booking stored as cancelled, also when the COMMIT or a
\* statement after the gateway call fails.
C29_RefundedBookingIsCancelled ==
    [][\A p \in Slots :
          (Finishes(p) /\ slot[p].op = "cancel"
             /\ slot[p].refund = "succeeded")
              => bookings'[slot[p].bid].status = "cancelled"]_vars

\* C30: in every reachable state no non-cancelled booking overlaps, under
\* the half-open rule, an unavailability window of its location, whether
\* the window was added before, after or during the creation of the booking.
C30_NoBookingOverlapsWindow ==
    \A b \in DOMAIN bookings :
        Active(b) =>
            ~\E k \in 1..Len(windows) :
                /\ windows[k].location_id = bookings[b].location_id
                /\ Overlaps(bookings[b].start_date, bookings[b].end_date,
                            windows[k].start_date, windows[k].end_date)

====
